---- MODULE Spec2Model ----
(***************************************************************************)
(* Model of utils/package_puml_generator.py: discovery of the source files *)
(* of a package, extraction of class records from their syntax trees,      *)
(* rendering of the PlantUML document, and the batch entry point.          *)
(*                                                                         *)
(* A Python str is a sequence of one-character strings, so that replace,   *)
(* split, with_suffix and the code-point order of sorted() are computed.   *)
(***************************************************************************)
EXTENDS Integers, Sequences, FiniteSets, TLC

VARIABLES
    repo,          \* the directories under the repository root: name -> [kind, files]
    package_name,  \* build_puml_for_package's argument
    pc,            \* position in build_puml_for_package
    py_files,      \* the list find_python_files returned
    fi,            \* index of the next file of the loop of lines 89-90
    all_classes,   \* the ClassInfo records collected so far
    lines,         \* the rendered document, one str per line
    raised,        \* the exception build_puml_for_package raised, or "none"
    packages,      \* main's argument
    pi,            \* index of the next package of main's loop
    status,        \* the lines main printed
    outputs        \* the files of the output directory: package -> content

vars == <<repo, package_name, pc, py_files, fi, all_classes, lines, raised,
          packages, pi, status, outputs>>

buildVars == <<package_name, pc, py_files, fi, all_classes, lines, raised>>

mainVars == <<packages, pi, status, outputs>>

(***************************************************************************)
(* Bounds of the model.                                                    *)
(***************************************************************************)
MaxFiles == 2       \* entries of one package directory

MaxBases == 2       \* base expressions of one generated class declaration

MaxDepth == 1       \* nesting of a generated base expression

MaxMethods == 13    \* function definitions in one generated class body

MaxPackages == 3    \* length of main's argument

(***************************************************************************)
(* str                                                                     *)
(***************************************************************************)
\* ord() of the characters that take part in comparisons
Ord(c) ==
    CASE c = "." -> 46
      [] c = "B" -> 66
      [] c = "C" -> 67
      [] c = "D" -> 68
      [] c = "_" -> 95
      [] c = "a" -> 97
      [] c = "b" -> 98
      [] c = "f" -> 102
      [] c = "g" -> 103
      [] c = "h" -> 104
      [] c = "i" -> 105
      [] c = "n" -> 110
      [] c = "p" -> 112
      [] c = "t" -> 116
      [] c = "y" -> 121

RECURSIVE StrLess(_, _)
\* s < t for two str: code-point lexicographic order
StrLess(s, t) ==
    IF t = <<>> THEN FALSE
    ELSE IF s = <<>> THEN TRUE
    ELSE IF Head(s) = Head(t) THEN StrLess(Tail(s), Tail(t))
    ELSE Ord(Head(s)) < Ord(Head(t))

StrLeq(s, t) == s = t \/ StrLess(s, t)

\* s.replace(old, new) for one-character old and new
Replace(s, old, new) == [i \in 1..Len(s) |-> IF s[i] = old THEN new ELSE s[i]]

StartsWith(s, p) == Len(p) <= Len(s) /\ SubSeq(s, 1, Len(p)) = p

EndsWith(s, p) == Len(p) <= Len(s) /\ SubSeq(s, Len(s) - Len(p) + 1, Len(s)) = p

\* s.rfind(c), 1-based; 0 when c does not occur
RFind(s, c) ==
    LET at == {i \in 1..Len(s) : s[i] = c}
    IN  IF at = {} THEN 0 ELSE CHOOSE i \in at : \A j \in at : j <= i

\* s.split(c)[-1]
LastSegment(s, c) == SubSeq(s, RFind(s, c) + 1, Len(s))

RECURSIVE Join(_, _)
\* sep.join(parts)
Join(parts, sep) ==
    IF parts = <<>> THEN <<>>
    ELSE IF Len(parts) = 1 THEN parts[1]
    ELSE parts[1] \o sep \o Join(Tail(parts), sep)

RECURSIVE Flatten(_)
\* the concatenation of a sequence of sequences (list.extend in a loop)
Flatten(ss) == IF ss = <<>> THEN <<>> ELSE Head(ss) \o Flatten(Tail(ss))

\* sorted(): the stable ascending order of the indices of keys
Rank(keys, i) ==
    1 + Cardinality({j \in 1..Len(keys) :
                        \/ StrLess(keys[j], keys[i])
                        \/ keys[j] = keys[i] /\ j < i})

SortedIdx(keys) ==
    [r \in 1..Len(keys) |-> CHOOSE i \in 1..Len(keys) : Rank(keys, i) = r]

\* sorted(xs)
Sorted(xs) == [r \in 1..Len(xs) |-> xs[SortedIdx(xs)[r]]]

\* all orders of a finite set
Perms(S) ==
    {p \in [1..Cardinality(S) -> S] : \A i, j \in 1..Cardinality(S) : p[i] = p[j] => i = j}

\* sequences over S of length at most n
SeqsUpTo(S, n) == UNION {[1..k -> S] : k \in 0..n}

(***************************************************************************)
(* pathlib                                                                 *)
(***************************************************************************)
DotPy == <<".", "p", "y">>

InitPy == <<"_", "_", "i", "n", "i", "t", "_", "_", ".", "p", "y">>

PyCache == <<"_", "_", "p", "y", "c", "a", "c", "h", "e", "_", "_">>

\* PurePath.suffix of a file name: from the last dot, unless that dot leads or ends the name
Suffix(name) ==
    LET r == RFind(name, ".")
    IN  IF 1 < r /\ r < Len(name) THEN SubSeq(name, r, Len(name)) ELSE <<>>

\* path.with_suffix(""): the last part loses its suffix
WithSuffixEmpty(path) ==
    LET name == path[Len(path)]
    IN  SubSeq(path, 1, Len(path) - 1)
            \o <<SubSeq(name, 1, Len(name) - Len(Suffix(name)))>>

\* path.relative_to(base), for a path below base
RelativeTo(path, base) == SubSeq(path, Len(base) + 1, Len(path))

(***************************************************************************)
(* find_python_files: os.walk is top-down and lists the entries of each    *)
(* directory in an order the file system chooses, so the result is any of  *)
(* the sequences WalkOrders gives.                                         *)
(***************************************************************************)
\* the files of the tree whose directory is exactly dir
FilesAt(files, dir) ==
    {f \in files : Len(f.path) = Len(dir) + 1 /\ SubSeq(f.path, 1, Len(dir)) = dir}

\* the names of the subdirectories of dir
DirsAt(files, dir) ==
    {f.path[Len(dir) + 1] : f \in {g \in files : Len(g.path) > Len(dir) + 1
                                                /\ SubSeq(g.path, 1, Len(dir)) = dir}}

KeepDir(d) == d # PyCache /\ ~StartsWith(d, <<".">>)

KeepFile(fn) == EndsWith(fn, DotPy) /\ fn # InitPy

RECURSIVE WalkOrders(_, _, _)
WalkOrders(files, package_dir, dir) ==
    LET here == {f \in FilesAt(files, dir) : KeepFile(f.path[Len(f.path)])}
        dirs == {d \in DirsAt(files, dir) : KeepDir(d)}
        sub(d) == WalkOrders(files, package_dir, dir \o <<d>>)
        below(order) ==
            \* one result per subdirectory, concatenated in the order of the walk
            {Flatten([k \in 1..Len(order) |-> pick[order[k]]]) :
                pick \in {q \in [dirs -> UNION {sub(d) : d \in dirs}] :
                            \A d \in dirs : q[d] \in sub(d)}}
    IN  {[k \in 1..Len(fo) |-> [path |-> package_dir \o fo[k].path, src |-> fo[k].src]] \o rest :
            fo \in Perms(here), rest \in UNION {below(order) : order \in Perms(dirs)}}

find_python_files(files, package_dir) == WalkOrders(files, package_dir, <<>>)

(***************************************************************************)
(* ClassInfo                                                               *)
(***************************************************************************)
ClassInfo(module, name, bases, methods) ==
    [module |-> module, name |-> name, bases |-> bases, methods |-> methods]

fqname(c) == IF c.module # <<>> THEN c.module \o <<".">> \o c.name ELSE c.name

alias(c) ==
    IF c.module # <<>> THEN Replace(c.module \o <<"_">> \o c.name, ".", "_") ELSE c.name

(***************************************************************************)
(* Syntax trees.  Expressions: Name(id), Attribute(value, attr),           *)
(* Subscript(value) and Call (any other shape).  Statements: ClassDef,     *)
(* FunctionDef, AsyncFunctionDef and Pass (any other statement).           *)
(***************************************************************************)
Name(id) == [kind |-> "Name", id |-> id]

Attribute(value, attr) == [kind |-> "Attribute", value |-> value, attr |-> attr]

Subscript(value) == [kind |-> "Subscript", value |-> value]

CallExpr == [kind |-> "Call"]

ClassDef(name, bases, body) ==
    [kind |-> "ClassDef", name |-> name, bases |-> bases, body |-> body]

FunctionDef(name, body) == [kind |-> "FunctionDef", name |-> name, body |-> body]

AsyncFunctionDef(name, body) == [kind |-> "AsyncFunctionDef", name |-> name, body |-> body]

PassStmt == [kind |-> "Pass"]

\* Optional[str]: None is the empty sequence, a str s is <<s>>
None == <<>>

Some(s) == <<s>>

RECURSIVE AttrParts(_)
\* the loop of lines 43-47: the attrs from the outside in, then the root Name's id
AttrParts(cur) ==
    IF cur.kind = "Attribute" THEN <<cur.attr>> \o AttrParts(cur.value)
    ELSE IF cur.kind = "Name" THEN <<cur.id>>
    ELSE <<>>

Reversed(s) == [i \in 1..Len(s) |-> s[Len(s) + 1 - i]]

RECURSIVE _base_name(_)
_base_name(node) ==
    IF node.kind = "Name" THEN Some(node.id)
    ELSE IF node.kind = "Attribute" THEN
        LET parts == Reversed(AttrParts(node))
        IN  IF parts # <<>> THEN Some(parts[Len(parts)]) ELSE None
    ELSE IF node.kind = "Subscript" THEN _base_name(node.value)
    ELSE None

\* the statements below a node (expressions hold no statements)
ChildStmts(node) ==
    IF node.kind \in {"ClassDef", "FunctionDef", "AsyncFunctionDef"} THEN node.body ELSE <<>>

RECURSIVE WalkQueue(_)
\* ast.walk: breadth first, a node's children appended to the queue
WalkQueue(todo) ==
    IF todo = <<>> THEN <<>>
    ELSE <<Head(todo)>> \o WalkQueue(Tail(todo) \o ChildStmts(Head(todo)))

ast_walk(tree) == WalkQueue(tree.body)

\* lines 69-73: the truthy results of _base_name, one per declared base, in order
BasesOf(node) ==
    LET names == [k \in 1..Len(node.bases) |-> _base_name(node.bases[k])]
        keep(o) == o # None /\ o[1] # <<>>
    IN  Flatten([k \in 1..Len(names) |-> IF keep(names[k]) THEN <<names[k][1]>> ELSE <<>>])

\* lines 74-77: the names of the FunctionDef statements of the class body
MethodsOf(node) ==
    Flatten([k \in 1..Len(node.body) |->
                IF node.body[k].kind = "FunctionDef" THEN <<node.body[k].name>> ELSE <<>>])

\* mutant of ModuleStr: a file directly in the package directory gets the empty module
ModuleStr_RootEmpty(py_file, package_dir) ==
    LET rel == RelativeTo(py_file.path, package_dir)
    IN  IF Len(rel) = 1 THEN <<>> ELSE Join(WithSuffixEmpty(rel), <<".">>)

\* lines 63-64
ModuleStr(py_file, package_dir) ==
    Join(WithSuffixEmpty(RelativeTo(py_file.path, package_dir)), <<".">>)

\* mutant of parse_classes: the class statements of a text are recorded although it does not parse
parse_classes_NoCatch(py_file, package_dir) ==
    LET module_str == ModuleStr(py_file, package_dir)
        nodes == ast_walk(py_file.src.tree)
    IN  Flatten([k \in 1..Len(nodes) |->
            IF nodes[k].kind = "ClassDef"
            THEN <<ClassInfo(module_str, nodes[k].name, BasesOf(nodes[k]), MethodsOf(nodes[k]))>>
            ELSE <<>>])

\* a source file either parses to a tree or makes read_text / ast.parse raise
parse_classes(py_file, package_dir) ==
    IF ~py_file.src.parses THEN <<>>
    ELSE
        LET module_str == ModuleStr(py_file, package_dir)
            nodes == ast_walk(py_file.src.tree)
        IN  Flatten([k \in 1..Len(nodes) |->
                IF nodes[k].kind = "ClassDef"
                THEN <<ClassInfo(module_str, nodes[k].name, BasesOf(nodes[k]), MethodsOf(nodes[k]))>>
                ELSE <<>>])

(***************************************************************************)
(* The text build_puml_for_package emits.                                  *)
(***************************************************************************)
StartUml == <<"@", "s", "t", "a", "r", "t", "u", "m", "l">>

SkinParam == <<"s", "k", "i", "n", "p", "a", "r", "a", "m", " ", "c", "l", "a", "s", "s", "A", "t", "t", "r", "i", "b", "u", "t", "e", "I", "c", "o", "n", "S", "i", "z", "e", " ", "0">>

PackageOpen == <<"p", "a", "c", "k", "a", "g", "e", " ", "\"">>

ModuleOpen == <<" ", " ", "p", "a", "c", "k", "a", "g", "e", " ", "\"">>

ClassOpen == <<" ", " ", " ", " ", "c", "l", "a", "s", "s", " ", "\"">>

AsKw == <<"\"", " ", "a", "s", " ">>

OpenBrace == <<" ", "{">>

MethodOpen == <<" ", " ", " ", " ", " ", " ", "+", " ">>

MethodClose == <<"(", ")">>

MoreLine == <<" ", " ", " ", " ", " ", " ", ".", ".", " ", "(", "m", "o", "r", "e", ")", " ", ".", ".">>

ClassClose == <<" ", " ", " ", " ", "}">>

ModuleClose == <<" ", " ", "}">>

PackageClose == <<"}">>

Arrow == <<" ", "-", "-", "|", ">", " ">>

EndUml == <<"@", "e", "n", "d", "u", "m", "l">>

Quote == <<"\"">>

NewLine == <<"\n">>

\* sorted(c.methods)[:12] and len(c.methods) > 12
MaxShown == 12

\* by_simple.get(b, []): the records named b, in the order of all_classes
by_simple(all, b) == SelectSeq(all, LAMBDA c : c.name = b)

\* the keys of by_module, in insertion order
ModuleKeys(all) ==
    Flatten([k \in 1..Len(all) |->
                IF \E j \in 1..(k - 1) : all[j].module = all[k].module
                THEN <<>> ELSE <<all[k].module>>])

\* by_module[module]
by_module(all, module) == SelectSeq(all, LAMBDA c : c.module = module)

MethodLine(m) == MethodOpen \o m \o MethodClose

EdgeLine(c, t) == alias(c) \o Arrow \o alias(t)

ClassHeader(c) == ClassOpen \o fqname(c) \o AsKw \o alias(c) \o OpenBrace

\* mutant of ClassBlock: the elision marker already at MaxShown methods
ClassBlock_ElideAtLimit(c) ==
    LET ms == Sorted(c.methods)
        shown == SubSeq(ms, 1, IF Len(ms) < MaxShown THEN Len(ms) ELSE MaxShown)
    IN  <<ClassHeader(c)>>
            \o [k \in 1..Len(shown) |-> MethodLine(shown[k])]
            \o (IF Len(c.methods) >= MaxShown THEN <<MoreLine>> ELSE <<>>)
            \o <<ClassClose>>

\* lines 112-119
ClassBlock(c) ==
    LET ms == Sorted(c.methods)
        shown == SubSeq(ms, 1, IF Len(ms) < MaxShown THEN Len(ms) ELSE MaxShown)
    IN  <<ClassHeader(c)>>
            \o [k \in 1..Len(shown) |-> MethodLine(shown[k])]
            \o (IF Len(c.methods) > MaxShown THEN <<MoreLine>> ELSE <<>>)
            \o <<ClassClose>>

\* line 108
DisplayModule(module, pkg) == IF module # <<>> THEN LastSegment(module, ".") ELSE pkg

\* lines 108-120, for one item of sorted(by_module.items())
ModuleBlock(all, module, pkg) ==
    LET classes == by_module(all, module)
        order == SortedIdx([k \in 1..Len(classes) |-> classes[k].name])
    IN  <<ModuleOpen \o DisplayModule(module, pkg) \o Quote \o OpenBrace>>
            \o Flatten([r \in 1..Len(classes) |-> ClassBlock(classes[order[r]])])
            \o <<ModuleClose>>

\* mutant of EdgeLines: a class is never connected to itself
EdgeLines_SkipSelf(all) ==
    Flatten([i \in 1..Len(all) |->
        Flatten([j \in 1..Len(all[i].bases) |->
            LET targets == SelectSeq(by_simple(all, all[i].bases[j]), LAMBDA t : t # all[i])
            IN  [k \in 1..Len(targets) |-> EdgeLine(all[i], targets[k])]])])

\* lines 125-130
EdgeLines(all) ==
    Flatten([i \in 1..Len(all) |->
        Flatten([j \in 1..Len(all[i].bases) |->
            LET targets == by_simple(all, all[i].bases[j])
            IN  [k \in 1..Len(targets) |-> EdgeLine(all[i], targets[k])]])])

\* mutant of RenderLines: the modules in the order they were first seen, not sorted
RenderLines_InsertionOrder(pkg, all) ==
    LET modules == ModuleKeys(all)
    IN  <<StartUml, SkinParam, PackageOpen \o pkg \o Quote \o OpenBrace>>
            \o Flatten([r \in 1..Len(modules) |-> ModuleBlock(all, modules[r], pkg)])
            \o <<PackageClose>>
            \o EdgeLines(all)
            \o <<EndUml>>

\* lines 97-132
RenderLines(pkg, all) ==
    LET modules == Sorted(ModuleKeys(all))
    IN  <<StartUml, SkinParam, PackageOpen \o pkg \o Quote \o OpenBrace>>
            \o Flatten([r \in 1..Len(modules) |-> ModuleBlock(all, modules[r], pkg)])
            \o <<PackageClose>>
            \o EdgeLines(all)
            \o <<EndUml>>

\* line 133: "\n".join(lines)
Document(ls) == Join(ls, NewLine)

\* lines 88-90 for a whole list of files
CollectClasses(files, package_dir) ==
    Flatten([k \in 1..Len(files) |-> parse_classes(files[k], package_dir)])

\* root / package_name, relative to the repository root
PackageDir(pkg) == <<pkg>>

(***************************************************************************)
(* build_puml_for_package, one step at a time                              *)
(***************************************************************************)
\* lines 83-85
CheckDir ==
    /\ pc = "start"
    /\ IF repo[package_name].kind = "dir"
       THEN pc' = "discover" /\ raised' = raised
       ELSE pc' = "raised" /\ raised' = "FileNotFoundError"
    /\ UNCHANGED <<repo, package_name, py_files, fi, all_classes, lines, mainVars>>

\* line 87
Discover ==
    /\ pc = "discover"
    /\ py_files' \in find_python_files(repo[package_name].files, PackageDir(package_name))
    /\ fi' = 1
    /\ all_classes' = <<>>
    /\ pc' = "parse"
    /\ UNCHANGED <<repo, package_name, lines, raised, mainVars>>

\* lines 89-90, one iteration
ParseFile ==
    /\ pc = "parse"
    /\ fi <= Len(py_files)
    /\ all_classes' = all_classes \o parse_classes(py_files[fi], PackageDir(package_name))
    /\ fi' = fi + 1
    /\ UNCHANGED <<repo, package_name, pc, py_files, lines, raised, mainVars>>

\* lines 92-133
Render ==
    /\ pc = "parse"
    /\ fi > Len(py_files)
    /\ lines' = RenderLines(package_name, all_classes)
    /\ pc' = "done"
    /\ UNCHANGED <<repo, package_name, py_files, fi, all_classes, raised, mainVars>>

BuildNext == CheckDir \/ Discover \/ ParseFile \/ Render

(***************************************************************************)
(* Inputs: package directories and source files.                           *)
(***************************************************************************)
Cli == <<"c", "l", "i">>

Gui == <<"g", "u", "i">>

RepoNames == {Cli, Gui}

B == <<"B">>

C == <<"C">>

Source(parses, body) == [parses |-> parses, tree |-> [body |-> body]]

\* class B: def g / def f
SrcBase == Source(TRUE, <<ClassDef(B, <<>>, <<FunctionDef(<<"g">>, <<>>), FunctionDef(<<"f">>, <<>>)>>)>>)

\* class C(B): def f, then a statement that is no function
SrcChild == Source(TRUE, <<ClassDef(C, <<Name(B)>>, <<FunctionDef(<<"f">>, <<>>), PassStmt>>)>>)

\* class C(B) declared before class B
SrcBoth == Source(TRUE, <<ClassDef(C, <<Name(B)>>, <<>>), ClassDef(B, <<>>, <<>>)>>)

\* class C(a.B, b.B)
SrcDup == Source(TRUE, <<ClassDef(C, <<Attribute(Name(<<"a">>), B), Attribute(Name(<<"b">>), B)>>, <<>>)>>)

\* def h(): class C: def f / class C(B[...], h())
SrcNested ==
    Source(TRUE, <<FunctionDef(<<"h">>, <<ClassDef(C, <<>>, <<FunctionDef(<<"f">>, <<>>)>>)>>),
                   ClassDef(C, <<Subscript(Name(B)), CallExpr>>, <<>>)>>)

\* class B(a.B, D): async def f
SrcSelf ==
    Source(TRUE, <<ClassDef(B, <<Attribute(Name(<<"a">>), B), Name(<<"D">>)>>,
                            <<AsyncFunctionDef(<<"f">>, <<>>)>>)>>)

\* def h(): pass
SrcNoClass == Source(TRUE, <<FunctionDef(<<"h">>, <<PassStmt>>)>>)

\* a text with a class statement and a syntax error
SrcBroken == Source(FALSE, <<ClassDef(C, <<Name(B)>>, <<>>)>>)

Sources == {SrcBase, SrcChild, SrcBoth, SrcDup, SrcNested, SrcSelf, SrcNoClass, SrcBroken}

\* a.py, .py, a_b.py, a/b.py, __init__.py, .h/a.py, relative to the package directory
Paths ==
    { <<<<"a", ".", "p", "y">>>>,
      <<DotPy>>,
      <<<<"a", "_", "b", ".", "p", "y">>>>,
      <<<<"a">>, <<"b", ".", "p", "y">>>>,
      <<InitPy>>,
      <<<<".", "h">>, <<"a", ".", "p", "y">>>> }

\* the file sets of a directory: at most MaxFiles files, no path twice
FileSets ==
    UNION {{{[path |-> p, src |-> m[p]] : p \in P} : m \in [P -> Sources]} :
            P \in {Q \in SUBSET Paths : Cardinality(Q) <= MaxFiles}}

Missing == [kind |-> "missing", files |-> {}]

NotADir == [kind |-> "file", files |-> {}]

Dir(files) == [kind |-> "dir", files |-> files]

NoOutputs == [n \in RepoNames |-> None]

\* one package, whose directory is missing, a plain file, or any of FileSets
Init ==
    /\ package_name = Cli
    /\ repo \in {[n \in RepoNames |-> IF n = Cli THEN e ELSE Missing] :
                    e \in {Missing, NotADir} \cup {Dir(fs) : fs \in FileSets}}
    /\ pc = "start"
    /\ py_files = <<>>
    /\ fi = 1
    /\ all_classes = <<>>
    /\ lines = <<>>
    /\ raised = "none"
    /\ packages = <<>>
    /\ pi = 1
    /\ status = <<>>
    /\ outputs = NoOutputs

Next == BuildNext

Spec == Init /\ [][Next]_vars

(***************************************************************************)
(* The same steps over generated class declarations: a.py holds class B    *)
(* and class C, whose bases (SpecBases) or body (SpecMethods) are drawn    *)
(* from bounded sets.                                                      *)
(***************************************************************************)
RECURSIVE Exprs(_)
\* the base expressions nested at most d deep
Exprs(d) ==
    IF d = 0 THEN {Name(B), Name(<<"a">>), CallExpr}
    ELSE Exprs(d - 1)
            \cup {Attribute(e, id) : e \in Exprs(d - 1), id \in {B, C}}
            \cup {Subscript(e) : e \in Exprs(d - 1)}

APy == <<<<"a", ".", "p", "y">>>>

OneClassDir(bases, body) ==
    Dir({[path |-> APy,
          src |-> Source(TRUE, <<ClassDef(B, <<>>, <<>>), ClassDef(C, bases, body)>>)]})

InitBases ==
    /\ package_name = Cli
    /\ repo \in {[n \in RepoNames |-> IF n = Cli THEN e ELSE Missing] :
                    e \in {Missing, NotADir}
                            \cup {OneClassDir(bs, <<>>) : bs \in SeqsUpTo(Exprs(MaxDepth), MaxBases)}}
    /\ pc = "start"
    /\ py_files = <<>>
    /\ fi = 1
    /\ all_classes = <<>>
    /\ lines = <<>>
    /\ raised = "none"
    /\ packages = <<>>
    /\ pi = 1
    /\ status = <<>>
    /\ outputs = NoOutputs

SpecBases == InitBases /\ [][Next]_vars

MethodDefs == {FunctionDef(<<"f">>, <<>>), FunctionDef(<<"g">>, <<>>)}

InitMethods ==
    /\ package_name = Cli
    /\ repo \in {[n \in RepoNames |-> IF n = Cli THEN e ELSE Missing] :
                    e \in {Missing, NotADir}
                            \cup {OneClassDir(<<>>, body) : body \in SeqsUpTo(MethodDefs, MaxMethods)}}
    /\ pc = "start"
    /\ py_files = <<>>
    /\ fi = 1
    /\ all_classes = <<>>
    /\ lines = <<>>
    /\ raised = "none"
    /\ packages = <<>>
    /\ pi = 1
    /\ status = <<>>
    /\ outputs = NoOutputs

SpecMethods == InitMethods /\ [][Next]_vars

(***************************************************************************)
(* main: one iteration of the loop of lines 148-154 per step.  write_puml  *)
(* fails when the file system makes mkdir or write_text raise.             *)
(***************************************************************************)
Generated(pkg, n) == [kind |-> "Generated", package |-> pkg, classes |-> n]

Failed(pkg, error) == [kind |-> "Failed", package |-> pkg, error |-> error]

\* the values build_puml_for_package returns when the files are found in this order
BuiltClasses(pkg, files) == CollectClasses(files, PackageDir(pkg))

BuiltDocument(pkg, files) == Document(RenderLines(pkg, BuiltClasses(pkg, files)))

\* mutant of MainNotFound: the exception leaves the loop, nothing is printed
MainNotFound_Propagates ==
    /\ pi <= Len(packages)
    /\ repo[packages[pi]].kind # "dir"
    /\ pi' = Len(packages) + 1
    /\ UNCHANGED <<repo, buildVars, packages, outputs, status>>

\* lines 149-150 and 153-154: build_puml_for_package raises
MainNotFound ==
    /\ pi <= Len(packages)
    /\ repo[packages[pi]].kind # "dir"
    /\ status' = Append(status, Failed(packages[pi], "FileNotFoundError"))
    /\ pi' = pi + 1
    /\ UNCHANGED <<repo, buildVars, packages, outputs>>

\* lines 149-152: the document is built, written and reported
MainGenerated ==
    /\ pi <= Len(packages)
    /\ repo[packages[pi]].kind = "dir"
    /\ \E files \in find_python_files(repo[packages[pi]].files, PackageDir(packages[pi])) :
        /\ outputs' = [outputs EXCEPT ![packages[pi]] = Some(BuiltDocument(packages[pi], files))]
        /\ status' = Append(status, Generated(packages[pi], Len(BuiltClasses(packages[pi], files))))
    /\ pi' = pi + 1
    /\ UNCHANGED <<repo, buildVars, packages>>

\* lines 149-151 and 153-154: write_puml raises, before or after the file is opened
MainWriteFailed ==
    /\ pi <= Len(packages)
    /\ repo[packages[pi]].kind = "dir"
    /\ \E left \in {outputs[packages[pi]], Some(<<>>)} :
        outputs' = [outputs EXCEPT ![packages[pi]] = left]
    /\ status' = Append(status, Failed(packages[pi], "OSError"))
    /\ pi' = pi + 1
    /\ UNCHANGED <<repo, buildVars, packages>>

MainNext == MainNotFound \/ MainGenerated \/ MainWriteFailed

MainDirs ==
    {Missing, NotADir, Dir({}),
     Dir({[path |-> APy, src |-> SrcBoth]}),
     Dir({[path |-> APy, src |-> SrcBroken]})}

InitMain ==
    /\ packages \in SeqsUpTo(RepoNames, MaxPackages)
    /\ repo \in [RepoNames -> MainDirs]
    /\ package_name = Cli
    /\ pc = "idle"
    /\ py_files = <<>>
    /\ fi = 1
    /\ all_classes = <<>>
    /\ lines = <<>>
    /\ raised = "none"
    /\ pi = 1
    /\ status = <<>>
    /\ outputs = NoOutputs

SpecMain == InitMain /\ [][MainNext]_vars

(***************************************************************************)
(* Reading the document back: the kind of a line and the names it holds.   *)
(***************************************************************************)
Contains(l, part) == \E i \in 1..Len(l) : SubSeq(l, i, i + Len(part) - 1) = part

Kind(l) ==
    IF l = StartUml THEN "start"
    ELSE IF l = SkinParam THEN "skin"
    ELSE IF l = MoreLine THEN "more"
    ELSE IF l = ClassClose THEN "endclass"
    ELSE IF l = ModuleClose THEN "endmodule"
    ELSE IF l = PackageClose THEN "endpackage"
    ELSE IF l = EndUml THEN "end"
    ELSE IF StartsWith(l, ClassOpen) THEN "class"
    ELSE IF StartsWith(l, ModuleOpen) THEN "module"
    ELSE IF StartsWith(l, MethodOpen) /\ EndsWith(l, MethodClose) THEN "method"
    ELSE IF StartsWith(l, PackageOpen) THEN "package"
    ELSE IF Contains(l, Arrow) THEN "edge"
    ELSE "other"

\* the quoted fqname of a class header line
HeaderFq(l) ==
    LET from == Len(ClassOpen) + 1
        q == CHOOSE i \in from..Len(l) :
                l[i] = "\"" /\ \A j \in from..(i - 1) : l[j] # "\""
    IN  SubSeq(l, from, q - 1)

HeaderName(l) == LastSegment(HeaderFq(l), ".")

HeaderModule(l) ==
    LET fq == HeaderFq(l)
    IN  IF RFind(fq, ".") = 0 THEN <<>> ELSE SubSeq(fq, 1, RFind(fq, ".") - 1)

\* the name a method line shows
ShownMethod(l) == SubSeq(l, Len(MethodOpen) + 1, Len(l) - Len(MethodClose))

\* the label of a module container line
ModuleLabel(l) == SubSeq(l, Len(ModuleOpen) + 1, Len(l) - Len(Quote) - Len(OpenBrace))

\* how often x occurs in the sequence s
Count(s, x) == Cardinality({i \in 1..Len(s) : s[i] = x})

Range(s) == {s[i] : i \in 1..Len(s)}

PackageDirOfRun == PackageDir(package_name)

(***************************************************************************)
(* Claims about one run of build_puml_for_package (Spec).                  *)
(***************************************************************************)
\* the document of a run that finds the files in the order given
DocumentFor(files) ==
    Document(RenderLines(package_name, CollectClasses(files, PackageDirOfRun)))

\* C1: rendering is order-independent with respect to file discovery: every
\* order in which find_python_files can return the files of the package gives
\* the document this run produced, byte for byte.
C1_OrderIndependent ==
    pc = "done" =>
        \A other \in find_python_files(repo[package_name].files, PackageDirOfRun) :
            DocumentFor(other) = Document(lines)

\* C2: within one run no two distinct class records have the same alias.
C2_AliasUnique ==
    pc = "done" =>
        \A i, j \in 1..Len(all_classes) :
            i # j => alias(all_classes[i]) # alias(all_classes[j])

\* the records other than i and t that could emit the edge line of i and t
SharesAlias(i) ==
    \E k \in 1..Len(all_classes) : k # i /\ alias(all_classes[k]) = alias(all_classes[i])

\* C3: a class declaring a base whose simple name matches exactly one other
\* class of the package gets exactly one edge line, from its alias to the
\* alias of that class.  (Stated for classes whose alias no other record
\* shares, so that every such line is the line of this class.)
C3_OneEdgePerMatchedBase ==
    pc = "done" =>
        \A i, t \in 1..Len(all_classes) :
            ( /\ i # t
              /\ all_classes[t].name \in Range(all_classes[i].bases)
              /\ \A k \in 1..Len(all_classes) :
                    all_classes[k].name = all_classes[t].name => k = t
              /\ ~SharesAlias(i) /\ ~SharesAlias(t) )
            => Count(lines, EdgeLine(all_classes[i], all_classes[t])) = 1

\* the edge lines of the document, in order
EdgesOfDocument == SelectSeq(lines, LAMBDA l : Kind(l) = "edge")

\* the (class, base position, target) triples the name index matches
Matches ==
    {m \in UNION {(({i} \X (1..Len(all_classes[i].bases))) \X (1..Len(all_classes))) :
                    i \in 1..Len(all_classes)} :
        all_classes[m[2]].name = all_classes[m[1][1]].bases[m[1][2]]}

MatchSource(m) == all_classes[m[1][1]]

MatchTarget(m) == all_classes[m[2]]

\* C4: the edge lines are exactly one line per class c, entry b of c.bases and
\* class t named b, from c's alias to t's alias (t may be c); a class without
\* bases and a base that names no class of the package give no line, and no
\* error is raised.
C4_EdgesAreNameMatches ==
    pc = "done" =>
        /\ raised = "none"
        /\ Len(EdgesOfDocument) = Cardinality(Matches)
        /\ \A l \in Range(EdgesOfDocument)
                    \cup {EdgeLine(MatchSource(m), MatchTarget(m)) : m \in Matches} :
                Count(EdgesOfDocument, l)
                    = Cardinality({m \in Matches :
                                    EdgeLine(MatchSource(m), MatchTarget(m)) = l})
        /\ \A i \in 1..Len(all_classes) :
                all_classes[i].bases = <<>> => ~\E m \in Matches : m[1][1] = i

\* a run with a class that matches itself, a base that names no class, a
\* class without bases, and at least two edge lines
C4_Witness ==
    /\ pc = "done"
    /\ \E m \in Matches : m[1][1] = m[2]
    /\ \E i \in 1..Len(all_classes) : \E b \in Range(all_classes[i].bases) :
            \A k \in 1..Len(all_classes) : all_classes[k].name # b
    /\ \E i \in 1..Len(all_classes) : all_classes[i].bases = <<>>
    /\ Len(EdgesOfDocument) >= 2

RECURSIVE ClassDefsIn(_)
\* the number of class statements in a list of statements, nested ones included
ClassDefsIn(stmts) ==
    IF stmts = <<>> THEN 0
    ELSE (IF Head(stmts).kind = "ClassDef" THEN 1 ELSE 0)
            + ClassDefsIn(ChildStmts(Head(stmts)))
            + ClassDefsIn(Tail(stmts))

RECURSIVE SumClassDefs(_)
\* the class statements of the files that parse
SumClassDefs(files) ==
    IF files = <<>> THEN 0
    ELSE (IF Head(files).src.parses THEN ClassDefsIn(Head(files).src.tree.body) ELSE 0)
            + SumClassDefs(Tail(files))

\* C7: a file whose reading or parsing fails contributes no class record and
\* no error: the build of an existing package always completes, the class list
\* is the concatenation of the records of the files that parse, and its length
\* is the number of class declarations in those files.
C7_ParseFailureAbsorbed ==
    /\ repo[package_name].kind = "dir" => pc # "raised" /\ raised = "none"
    /\ pc = "done" =>
        /\ all_classes
            = CollectClasses(SelectSeq(py_files, LAMBDA f : f.src.parses), PackageDirOfRun)
        /\ Len(all_classes) = SumClassDefs(py_files)
        /\ \A k \in 1..Len(py_files) :
                ~py_files[k].src.parses
                    => all_classes
                        = CollectClasses(SubSeq(py_files, 1, k - 1)
                                            \o SubSeq(py_files, k + 1, Len(py_files)),
                                         PackageDirOfRun)

\* a finished run over a file that does not parse and a file that holds classes
C7_Witness ==
    /\ pc = "done"
    /\ \E k \in 1..Len(py_files) :
            ~py_files[k].src.parses /\ ClassDefsIn(py_files[k].src.tree.body) > 0
    /\ \E k \in 1..Len(py_files) : py_files[k].src.parses
    /\ Len(all_classes) > 0

\* the records of the k-th discovered file
RecordsOf(k) == Range(parse_classes(py_files[k], PackageDirOfRun))

AtRoot(k) == Len(py_files[k].path) = Len(PackageDirOfRun) + 1

\* the module container that holds the class header at line h
ContainerOf(h) ==
    LET opens == {i \in 1..h : Kind(lines[i]) = "module"}
    IN  lines[CHOOSE i \in opens : \A j \in opens : j <= i]

\* block headers of record r, each inside a container with the given label
RenderedUnder(r, label) ==
    /\ \E h \in 1..Len(lines) : lines[h] = ClassHeader(r)
    /\ \A h \in 1..Len(lines) :
            lines[h] = ClassHeader(r) => ModuleLabel(ContainerOf(h)) = label

\* C8 as stated: the module of a class of a file at the package root is the
\* empty string, its fqname and alias are the bare class name, and it is
\* rendered in a container labelled with the package name.
C8_RootModuleEmpty ==
    pc = "done" =>
        \A k \in 1..Len(py_files) : \A r \in RecordsOf(k) :
            AtRoot(k) =>
                /\ r.module = <<>>
                /\ fqname(r) = r.name
                /\ alias(r) = r.name
                /\ RenderedUnder(r, package_name)

\* the name of a .py file without the extension; the file named ".py" has none
StemOf(fn) == IF fn = DotPy THEN fn ELSE SubSeq(fn, 1, Len(fn) - Len(DotPy))

\* C8, amended: the module of a class of a file at the package root is the
\* file name without its extension, never empty; its fqname is module.name,
\* its alias module_name with dots replaced, and it is rendered in a container
\* labelled with the module's last dot-separated segment.  For a file in a
\* subdirectory the module is the dot-joined relative path without extension
\* and the label is the module's last segment.
C8_RootModuleIsStem ==
    pc = "done" =>
        \A k \in 1..Len(py_files) : \A r \in RecordsOf(k) :
            LET rel == RelativeTo(py_files[k].path, PackageDirOfRun)
                stem == StemOf(rel[Len(rel)])
            IN  /\ r \in Range(all_classes)
                /\ stem # <<>>
                /\ r.module = Join(SubSeq(rel, 1, Len(rel) - 1) \o <<stem>>, <<".">>)
                /\ AtRoot(k) => r.module = stem
                /\ fqname(r) = r.module \o <<".">> \o r.name
                /\ alias(r) = Replace(r.module, ".", "_") \o <<"_">> \o r.name
                /\ RenderedUnder(r, LastSegment(r.module, "."))

\* a finished run with a class from a root file and a class from a subdirectory
C8_Witness ==
    /\ pc = "done"
    /\ \E k \in 1..Len(py_files) : AtRoot(k) /\ RecordsOf(k) # {}
    /\ \E k \in 1..Len(py_files) : ~AtRoot(k) /\ RecordsOf(k) # {}

\* which kind of line may follow which
Follows ==
    { <<"start", "skin">>, <<"skin", "package">>,
      <<"package", "module">>, <<"package", "endpackage">>,
      <<"module", "class">>,
      <<"class", "method">>, <<"class", "endclass">>,
      <<"method", "method">>, <<"method", "more">>, <<"method", "endclass">>,
      <<"more", "endclass">>,
      <<"endclass", "class">>, <<"endclass", "endmodule">>,
      <<"endmodule", "module">>, <<"endmodule", "endpackage">>,
      <<"endpackage", "edge">>, <<"endpackage", "end">>,
      <<"edge", "edge">>, <<"edge", "end">> }

\* i and j are class headers with no class header between them
NextHeader(i, j) ==
    /\ i < j
    /\ Kind(lines[i]) = "class"
    /\ Kind(lines[j]) = "class"
    /\ \A m \in (i + 1)..(j - 1) : Kind(lines[m]) # "class"

\* C9: the document is header, style line, package opening, the module
\* containers in strictly ascending order of module key, in each the class
\* blocks in ascending order of class name, in each block the method lines in
\* ascending order, the package closing, the edge lines, the footer; every
\* container and block is closed before its next sibling opens and no edge
\* line precedes the package closing.
C9_DocumentOrder ==
    pc = "done" =>
        /\ Len(lines) >= 5
        /\ Kind(lines[1]) = "start"
        /\ Kind(lines[Len(lines)]) = "end"
        /\ lines[3] = PackageOpen \o package_name \o Quote \o OpenBrace
        /\ \A i \in 1..(Len(lines) - 1) : <<Kind(lines[i]), Kind(lines[i + 1])>> \in Follows
        /\ \A i \in 1..(Len(lines) - 1) :
                Kind(lines[i]) = "method" /\ Kind(lines[i + 1]) = "method"
                    => StrLeq(ShownMethod(lines[i]), ShownMethod(lines[i + 1]))
        /\ \A i, j \in 1..Len(lines) :
                NextHeader(i, j) =>
                    IF \E m \in i..j : Kind(lines[m]) = "module"
                    THEN StrLess(HeaderModule(lines[i]), HeaderModule(lines[j]))
                    ELSE /\ HeaderModule(lines[i]) = HeaderModule(lines[j])
                         /\ StrLeq(HeaderName(lines[i]), HeaderName(lines[j]))
        /\ \A c \in Range(all_classes) : \E h \in 1..Len(lines) : lines[h] = ClassHeader(c)

\* a finished run whose classes were collected in another order than the
\* document shows: two containers, two blocks in one container, two method
\* lines in one block, and an edge line
C9_Witness ==
    /\ pc = "done"
    /\ \E i, j \in 1..Len(all_classes) :
            i < j /\ StrLess(all_classes[j].module, all_classes[i].module)
    /\ \E i, j \in 1..Len(all_classes) :
            /\ i < j
            /\ all_classes[j].module = all_classes[i].module
            /\ StrLess(all_classes[j].name, all_classes[i].name)
    /\ \E i \in 1..(Len(lines) - 1) :
            Kind(lines[i]) = "method" /\ Kind(lines[i + 1]) = "method"
    /\ \E i \in 1..Len(lines) : Kind(lines[i]) = "edge"

(***************************************************************************)
(* Claims about generated class declarations (SpecBases, SpecMethods).     *)
(***************************************************************************)
\* the class statements behind all_classes, in the same order
DeclaredClasses ==
    Flatten([k \in 1..Len(py_files) |->
                IF py_files[k].src.parses
                THEN SelectSeq(ast_walk(py_files[k].src.tree), LAMBDA n : n.kind = "ClassDef")
                ELSE <<>>])

RECURSIVE Resolved(_)
\* the identifiers a base expression resolves to: none or one
Resolved(e) ==
    IF e.kind = "Name" THEN {e.id}
    ELSE IF e.kind = "Attribute" THEN {e.attr}
    ELSE IF e.kind = "Subscript" THEN Resolved(e.value)
    ELSE {}

\* C10: the bases of a class record hold no identifier twice and exactly the
\* identifiers its declared base expressions resolve to (a name to itself, a
\* dotted chain to its rightmost segment, a subscript to the resolution of its
\* value, anything else to nothing).
C10_BasesDistinctResolved ==
    pc = "done" =>
        /\ Len(DeclaredClasses) = Len(all_classes)
        /\ \A k \in 1..Len(all_classes) :
            /\ Range(all_classes[k].bases)
                = UNION {Resolved(e) : e \in Range(DeclaredClasses[k].bases)}
            /\ \A i, j \in 1..Len(all_classes[k].bases) :
                    i # j => all_classes[k].bases[i] # all_classes[k].bases[j]

\* the lines of the block of class record c, between its header and its closing
BlockOf(c) ==
    LET h == CHOOSE i \in 1..Len(lines) : lines[i] = ClassHeader(c)
        e == CHOOSE i \in (h + 1)..Len(lines) :
                lines[i] = ClassClose /\ \A j \in (h + 1)..(i - 1) : lines[j] # ClassClose
    IN  SubSeq(lines, h + 1, e - 1)

\* the names the method lines of a block show, in order
ShownIn(block) ==
    LET ms == SelectSeq(block, LAMBDA l : Kind(l) = "method")
    IN  [i \in 1..Len(ms) |-> ShownMethod(ms[i])]

\* C5: the block of a class shows min(12, n) of its n methods, never 13 or
\* more: the lexically smallest ones in ascending order, followed by exactly
\* one elision marker if and only if n > 12.
C5_MethodLimit ==
    pc = "done" =>
        \A c \in Range(all_classes) :
            LET block == BlockOf(c)
                shown == ShownIn(block)
                n == Len(c.methods)
            IN  /\ Len(shown) = (IF n < 12 THEN n ELSE 12)
                /\ Len(shown) < 13
                /\ \A i \in 1..Len(shown) : block[i] = MethodOpen \o shown[i] \o MethodClose
                /\ \A i \in 1..(Len(shown) - 1) : StrLeq(shown[i], shown[i + 1])
                /\ \A x \in Range(shown) : Count(shown, x) <= Count(c.methods, x)
                /\ \A x \in Range(c.methods) :
                        Count(shown, x) < Count(c.methods, x)
                            => \A y \in Range(shown) : StrLeq(y, x)
                /\ Count(block, MoreLine) = (IF n > 12 THEN 1 ELSE 0)
                /\ Len(block) = Len(shown) + Count(block, MoreLine)
                /\ n > 12 => block[Len(block)] = MoreLine

\* a finished run over a class with 13 methods, declared out of order
C5_Witness ==
    /\ pc = "done"
    /\ \E c \in Range(all_classes) :
            /\ Len(c.methods) = 13
            /\ \E i \in 1..12 : StrLess(c.methods[i + 1], c.methods[i])
            /\ Count(BlockOf(c), MoreLine) = 1

(***************************************************************************)
(* Claims about main (SpecMain).                                           *)
(***************************************************************************)
\* C6: main reports every package of its list once, in list order: after k
\* iterations there are k status lines, the k-th about the k-th package, and
\* while packages remain the next one can be processed whatever failed before;
\* a package whose directory is missing or no directory gets a failure line
\* and no output file.
C6_BatchContinues ==
    /\ pi <= Len(packages) + 1
    /\ Len(status) = pi - 1
    /\ pi <= Len(packages) =>
            \/ repo[packages[pi]].kind # "dir"
            \/ find_python_files(repo[packages[pi]].files, PackageDir(packages[pi])) # {}
    /\ \A k \in 1..Len(status) :
            /\ status[k].package = packages[k]
            /\ status[k].kind \in {"Generated", "Failed"}
            /\ repo[packages[k]].kind # "dir" => status[k].kind = "Failed"
            /\ status[k].kind = "Generated" => outputs[packages[k]] # None
    /\ \A n \in RepoNames : repo[n].kind # "dir" => outputs[n] = None

\* a finished batch of three packages: the first fails, a later one is generated
C6_Witness ==
    /\ pi = Len(packages) + 1
    /\ Len(status) = 3
    /\ status[1].kind = "Failed"
    /\ repo[packages[1]].kind = "missing"
    /\ \E k \in 2..3 : status[k].kind = "Generated" /\ status[k].classes = 2
    /\ \E k \in 2..3 : status[k].kind = "Failed" /\ status[k].error = "OSError"

====
